---- MODULE Spec2Model ----
(***************************************************************************)
(* Model of sebaran_pts.py: the connection resolver                        *)
(* (_build_query_runner), the cached loader/normaliser                     *)
(* (load_data_from_db under st.cache_data(ttl=300)) and the export block   *)
(* that strips the time zone of created_at.  One script run executes the   *)
(* module top to bottom: resolver (line 55), load (line 133), view and     *)
(* export (lines 135-250).                                                 *)
(***************************************************************************)
EXTENDS Integers, Sequences, FiniteSets, TLC

(***************************************************************************)
(* Bounds of the model.                                                    *)
(***************************************************************************)
MaxRuns == 3
MaxClock == 450
MaxRows == 2

\* st.cache_data(ttl=300), in seconds.
ttl == 300

(***************************************************************************)
(* Cell values.  Text is a sequence of one-character strings.              *)
(***************************************************************************)
NULL == [t |-> "null"]
Str(s) == [t |-> "str", s |-> s]
IntCell(n) == [t |-> "int", n |-> n]
\* A timestamp: wall-clock minutes and a zone ("naive" when it has none).
Ts(wall, tz) == [t |-> "ts", wall |-> wall, tz |-> tz]
\* A float64: k is "num" (m thousandths), "nan", "inf" or "-inf".
Float(k, m) == [t |-> "float", k |-> k, m |-> m]
NaN == Float("nan", 0)

Digits == <<"0", "1", "2", "3", "4", "5", "6", "7", "8", "9">>
IsDigit(c) == \E i \in 1..10 : Digits[i] = c
DigitVal(c) == (CHOOSE i \in 1..10 : Digits[i] = c) - 1

RECURSIVE IntToStr(_)
\* str(n) for an integer n.
IntToStr(n) ==
    IF n < 0 THEN <<"-">> \o IntToStr(-n)
    ELSE IF n < 10 THEN <<Digits[n + 1]>>
    ELSE IntToStr(n \div 10) \o <<Digits[(n % 10) + 1]>>

\* Series.astype(str) on one cell.
astype_str(v) ==
    CASE v.t = "str" -> v
      [] v.t = "int" -> Str(IntToStr(v.n))
      [] v.t = "null" -> Str(<<"N", "o", "n", "e">>)
      [] OTHER -> Str(<<"?">>)

\* Series.fillna(x) on one cell.
fillna(v, x) == IF v.t = "null" THEN x ELSE v

\* Series.str.replace(',', '.', regex=False) on one cell.
str_replace_comma(v) ==
    Str([i \in 1..Len(v.s) |-> IF v.s[i] = "," THEN "." ELSE v.s[i]])

AllDigits(s) == \A i \in 1..Len(s) : IsDigit(s[i])

RECURSIVE DigitsValue(_)
DigitsValue(s) ==
    IF Len(s) = 0 THEN 0
    ELSE 10 * DigitsValue(SubSeq(s, 1, Len(s) - 1)) + DigitVal(s[Len(s)])

\* The fraction digits as thousandths.
FracMilli(s) ==
    CASE Len(s) = 0 -> 0
      [] Len(s) = 1 -> 100 * DigitsValue(s)
      [] Len(s) = 2 -> 10 * DigitsValue(s)
      [] OTHER -> DigitsValue(SubSeq(s, 1, 3))

\* The unsigned part of a number: digits [ "." digits ], "inf" or "nan".
ParseUnsigned(s) ==
    LET dots == {i \in 1..Len(s) : s[i] = "."}
    IN  IF s = <<"i", "n", "f">> THEN Float("inf", 0)
        ELSE IF s = <<"n", "a", "n">> THEN NaN
        ELSE IF Len(s) = 0 THEN NaN
        ELSE IF dots = {} THEN
            IF AllDigits(s) THEN Float("num", 1000 * DigitsValue(s)) ELSE NaN
        ELSE IF Cardinality(dots) > 1 THEN NaN
        ELSE LET d == CHOOSE i \in dots : TRUE
                 ip == SubSeq(s, 1, d - 1)
                 fp == SubSeq(s, d + 1, Len(s))
             IN  IF AllDigits(ip) /\ AllDigits(fp) /\ Len(ip) + Len(fp) > 0
                 THEN Float("num", 1000 * DigitsValue(ip) + FracMilli(fp))
                 ELSE NaN

Negate(f) ==
    CASE f.k = "num" -> Float("num", 0 - f.m)
      [] f.k = "inf" -> Float("-inf", 0)
      [] OTHER -> f

\* pd.to_numeric(cell, errors='coerce'): text that is no number becomes NaN.
to_numeric(v) ==
    IF v.t # "str" THEN NaN
    ELSE IF Len(v.s) > 0 /\ v.s[1] = "-" THEN Negate(ParseUnsigned(Tail(v.s)))
    ELSE ParseUnsigned(v.s)

(***************************************************************************)
(* Data frames: a sequence of rows, a row a function from column names to  *)
(* cells.  pd.DataFrame() is the empty sequence.                           *)
(***************************************************************************)
EmptyFrame == << >>
df_empty(df) == Len(df) = 0
Sentinel == Str(<<"-">>)

\* The columns of the SELECT (lines 64-83).
SrcCols ==
    {"id", "kode_pts", "nama", "status_pt", "singkatan", "alamat", "kota_kab",
     "provinsi", "kode_pos", "latitude", "longitude", "no_telp", "no_fax",
     "email", "website", "created_at"}

\* The mapping of df.rename(columns={...}) (lines 91-96).
NewName(c) ==
    CASE c = "kota_kab" -> "kota"
      [] c = "provinsi" -> "propinsi"
      [] c = "latitude" -> "lat_raw"
      [] c = "longitude" -> "lon_raw"
      [] OTHER -> c

rename_row(r) ==
    [c \in {NewName(k) : k \in DOMAIN r} |->
        r[CHOOSE k \in DOMAIN r : NewName(k) = c]]

rename(df) == [i \in 1..Len(df) |-> rename_row(df[i])]

\* The list written with the names the columns had before the rename.
text_cols_unrenamed ==
    {"kode_pts", "nama", "status_pt", "singkatan", "alamat", "kota_kab",
     "provinsi", "kode_pos", "no_telp", "no_fax", "email", "website"}

text_cols ==
    {"kode_pts", "nama", "status_pt", "singkatan", "alamat", "kota", "propinsi",
     "kode_pos", "no_telp", "no_fax", "email", "website"}

\* for col in text_cols: if col in df.columns: fillna("-").astype(str)
fill_text_row(r) ==
    [c \in DOMAIN r |->
        IF c \in text_cols THEN astype_str(fillna(r[c], Sentinel)) ELSE r[c]]

fill_text(df) == [i \in 1..Len(df) |-> fill_text_row(df[i])]

\* astype(str), comma to period, to_numeric(errors='coerce') on one cell.
parse_coord(v) == to_numeric(str_replace_comma(astype_str(v)))

add_coords_row(r) ==
    [c \in DOMAIN r \cup {"lat", "lon"} |->
        CASE c = "lat" -> parse_coord(r["lat_raw"])
          [] c = "lon" -> parse_coord(r["lon_raw"])
          [] OTHER -> r[c]]

add_coords(df) == [i \in 1..Len(df) |-> add_coords_row(df[i])]

isna(v) == v.t = "null" \/ (v.t = "float" /\ v.k = "nan")

\* A variant that looks at the latitude alone.
dropna_lat_only(df) == SelectSeq(df, LAMBDA r : ~isna(r["lat"]))

\* df.dropna(subset=['lat', 'lon'])
dropna(df) == SelectSeq(df, LAMBDA r : ~isna(r["lat"]) /\ ~isna(r["lon"]))

(***************************************************************************)
(* The body of load_data_from_db (lines 62-125).  q is what run_query      *)
(* gave: [ok, df].  fault names the step that raises, "none" when no step  *)
(* does.                                                                   *)
(***************************************************************************)
FaultPoints == {"none", "query", "rename", "fill", "parse", "drop"}

Raised(where) == [raised |-> TRUE, where |-> where, df |-> EmptyFrame]
Returned(df) == [raised |-> FALSE, where |-> "none", df |-> df]

\* The try block, lines 62-121.
load_try(q, fault) ==
    IF ~q.ok THEN Raised("query")
    ELSE IF df_empty(q.df) THEN Returned(EmptyFrame)
    ELSE IF fault \in {"rename", "fill", "parse", "drop"} THEN Raised(fault)
    ELSE Returned(dropna(add_coords(fill_text(rename(q.df)))))

\* A handler that catches the query's errors only.
except_query_only(o) ==
    IF o.raised
    THEN [df |-> EmptyFrame, errors |-> IF o.where = "query" THEN 1 ELSE 0,
          propagated |-> o.where # "query"]
    ELSE [df |-> o.df, errors |-> 0, propagated |-> FALSE]

\* except Exception as e: st.error(...); return pd.DataFrame()
except_Exception(o) ==
    IF o.raised
    THEN [df |-> EmptyFrame, errors |-> 1, propagated |-> FALSE]
    ELSE [df |-> o.df, errors |-> 0, propagated |-> FALSE]

(***************************************************************************)
(* The export block (lines 204-227).                                       *)
(***************************************************************************)
cols_display ==
    {"id", "kode_pts", "nama", "status_pt", "singkatan", "alamat", "kota",
     "propinsi", "kode_pos", "lat_raw", "lon_raw", "no_telp", "no_fax",
     "email", "website", "created_at"}

\* Minutes east of UTC of a zone.
UtcOffset(tz) ==
    CASE tz = "+07:00" -> 420
      [] OTHER -> 0

\* .dt.tz_convert(None): to UTC, then naive.
tz_convert_none(v) ==
    IF v.t = "ts" /\ v.tz # "naive"
    THEN Ts(v.wall - UtcOffset(v.tz), "naive")
    ELSE v

\* pd.to_datetime(...).dt.tz_localize(None): the zone dropped, the wall clock kept.
tz_localize_none(v) == IF v.t = "ts" THEN Ts(v.wall, "naive") ELSE v

\* df_pts[cols_display].copy() with created_at made naive.
export_row(r) ==
    [c \in cols_display |->
        IF c = "created_at" THEN tz_localize_none(r[c]) ELSE r[c]]

export_frame(df) == [i \in 1..Len(df) |-> export_row(df[i])]

(***************************************************************************)
(* The connection resolver (lines 24-52).                                  *)
(* managed: "absent" (st.connection throws), "broken" (it constructs, its  *)
(* queries throw) or "ok" (its queries succeed while the database is up).  *)
(* A configuration source is [has, val].                                   *)
(***************************************************************************)
NoValue == [has |-> FALSE, val |-> ""]
Value(v) == [has |-> TRUE, val |-> v]

\* st.connection("postgresql", type="sql") did not throw.
st_connection_ok(managed) == managed # "absent"

\* conn.query(sql) did not throw.
conn_query_ok(managed, up) == managed = "ok" /\ up

\* A try block without the liveness query.
managed_strategy_no_probe(managed, up) ==
    IF ~st_connection_ok(managed) THEN "construct_threw" ELSE "ok"

\* The try block, lines 31-39.
managed_strategy(managed, up) ==
    IF ~st_connection_ok(managed) THEN "construct_threw"
    ELSE IF ~conn_query_ok(managed, up) THEN "probe_threw"
    ELSE "ok"

os_getenv(env, default) == IF env.has THEN env.val ELSE default
secrets_get(secret, default) == IF secret.has THEN secret.val ELSE default

\* st.secrets.get("DATABASE_URL", os.getenv("DATABASE_URL", ""))
db_url(secret, env) == secrets_get(secret, os_getenv(env, ""))

_build_query_runner(managed, up, secret, env) ==
    LET s1 == managed_strategy(managed, up)
        url == db_url(secret, env)
    IN  IF s1 = "ok" THEN [kind |-> "managed", s1 |-> s1, url |-> ""]
        ELSE IF url = "" THEN [kind |-> "stop", s1 |-> s1, url |-> ""]
        ELSE [kind |-> "engine", s1 |-> s1, url |-> url]

(***************************************************************************)
(* The query runners.  sqlFails: the statement raises once connected.      *)
(***************************************************************************)
\* pd.read_sql(text(sql), con) / conn.query(sql) on a live connection.
read_sql(table, sqlFails) ==
    IF sqlFails THEN [ok |-> FALSE, df |-> EmptyFrame]
    ELSE [ok |-> TRUE, df |-> table]

_run_query_streamlit(managed, up, table, sqlFails) ==
    IF conn_query_ok(managed, up) THEN read_sql(table, sqlFails)
    ELSE [ok |-> FALSE, df |-> EmptyFrame]

\* engine.connect(): checks one connection out of the pool, or raises.
engine_connect(pool, up) ==
    IF up
    THEN [ok |-> TRUE,
          pool |-> [pool EXCEPT !.checkedOut = @ + 1, !.acquired = @ + 1]]
    ELSE [ok |-> FALSE, pool |-> pool]

\* A release on the normal path only.
context_exit_on_success(pool, ok) ==
    IF ok THEN [pool EXCEPT !.checkedOut = @ - 1] ELSE pool

\* The end of the with block: the connection goes back on every exit.
context_exit(pool, ok) == [pool EXCEPT !.checkedOut = @ - 1]

_run_query_engine(pool, up, table, sqlFails) ==
    LET called == [pool EXCEPT !.calls = @ + 1]
        con == engine_connect(called, up)
    IN  IF ~con.ok THEN [ok |-> FALSE, df |-> EmptyFrame, pool |-> con.pool]
        ELSE LET res == read_sql(table, sqlFails)
             IN  [ok |-> res.ok, df |-> res.df,
                  pool |-> context_exit(con.pool, res.ok)]

(***************************************************************************)
(* st.cache_data(ttl=300): an entry [has, at, val].                        *)
(***************************************************************************)
NoEntry == [has |-> FALSE, at |-> 0, val |-> EmptyFrame]

\* An entry that never expires.
cache_fresh_forever(c, now) == c.has

\* The entry is served while younger than ttl.
cache_fresh(c, now) == c.has /\ now - c.at < ttl

\* A store that keeps successful results only.
cache_store_unless_error(c, now, out) ==
    IF out.errors > 0 THEN c ELSE [has |-> TRUE, at |-> now, val |-> out.df]

\* Whatever the function returned is stored, stamped with the time.
cache_store(c, now, out) == [has |-> TRUE, at |-> now, val |-> out.df]

(***************************************************************************)
(* The rows the source table public.profil_pts can hold in the model.      *)
(***************************************************************************)
T(s) == Str(s)

\* Raw latitude / longitude texts.
CoordPairs ==
    << <<T(<<"-", "6", ",", "1", "2", "3">>), T(<<"1", "1", "0", ",", "4", "5", "6">>)>>,
       <<T(<< >>), T(<<"1", "1", "0", ",", "4", "5", "6">>)>>,
       <<T(<<"-", "6", ",", "1", "2", "3">>), T(<<"a", "b", "c">>)>>,
       <<NULL, T(<<"1", ",", "2", ",", "3">>)>>,
       <<T(<<"9", "5">>), T(<<"1", "1", "0", ".", "0">>)>>,
       <<T(<<"-", "7", ".", "3">>), T(<<"2", "0", "0">>)>>,
       <<T(<<"i", "n", "f">>), T(<<"1", "1", "0", ",", "4", "5", "6">>)>> >>

NPairs == Len(CoordPairs)
Profiles == 1..3

\* The text cell of column c in a row of profile k.
TextCell(k, c) ==
    CASE k = 1 -> T(<<"U", "n", "i">>)
      [] k = 2 -> (CASE c \in {"nama", "kota_kab"} -> NULL
                     [] c = "kode_pts" -> IntCell(41)
                     [] c = "website" -> T(<< >>)
                     [] OTHER -> T(<<"-">>))
      [] OTHER -> NULL

\* The created_at cell of a row of profile k.
TsCell(k) ==
    CASE k = 1 -> Ts(600, "+07:00")
      [] k = 2 -> Ts(45, "naive")
      [] OTHER -> NULL

RowId(p, k) == 10 * k + p

RawRow(p, k) ==
    [c \in SrcCols |->
        CASE c = "id" -> IntCell(RowId(p, k))
          [] c = "latitude" -> CoordPairs[p][1]
          [] c = "longitude" -> CoordPairs[p][2]
          [] c = "created_at" -> TsCell(k)
          [] OTHER -> TextCell(k, c)]

RawRows == {RawRow(p, k) : p \in 1..NPairs, k \in Profiles}

\* The source row with the id of a row of a returned table.
RawById(id) == CHOOSE r \in RawRows : r["id"] = id

RECURSIVE SeqsUpTo(_, _)
SeqsUpTo(S, n) ==
    IF n = 0 THEN {<< >>}
    ELSE LET shorter == SeqsUpTo(S, n - 1)
         IN  shorter \cup {Append(q, x) : q \in {z \in shorter : Len(z) = n - 1}, x \in S}

AllTables == SeqsUpTo(RawRows, MaxRows)

SmallTables ==
    {<< >>, <<RawRow(5, 2), RawRow(2, 3)>>}

Managed == {"absent", "broken", "ok"}
Secrets == {NoValue, Value(""), Value("postgresql://secret")}
Envs == {NoValue, Value(""), Value("postgresql://env")}
TickSteps == {150, 300}

(***************************************************************************)
(* State.                                                                  *)
(***************************************************************************)
VARIABLES
    managed,        \* the host's registry entry "postgresql"
    secret,         \* st.secrets["DATABASE_URL"]
    env,            \* os.environ["DATABASE_URL"]
    dbUp,           \* the database answers
    dbTable,        \* public.profil_pts
    clock,          \* seconds
    pc,             \* position of the script run: resolve, load, view, end
    runs,           \* script runs started
    run_query,      \* the module global: "none", "managed", "engine"
    engineUrl,      \* the url the current engine was built from
    enginesCreated, \* create_engine calls
    resolutions,    \* _build_query_runner calls
    strategy1,      \* how the managed strategy ended in the last resolution
    stopped,        \* st.stop() ended this run
    cache,          \* the entry of load_data_from_db
    df_pts,         \* what load_data_from_db returned to this run
    df_export,      \* the frame written to the spreadsheet
    pool,           \* the engine pools: calls, acquired, checkedOut
    queryCount,     \* run_query(query) calls made by load_data_from_db
    lastQuery,      \* the load that last executed the query: at, failed, result
    lastLoad,       \* the last load: hit, raised, errors, fault
    crashed         \* an exception left load_data_from_db

vars ==
    <<managed, secret, env, dbUp, dbTable, clock, pc, runs, run_query, engineUrl,
      enginesCreated, resolutions, strategy1, stopped, cache, df_pts, df_export,
      pool, queryCount, lastQuery, lastLoad, crashed>>

envVars == <<managed, secret, env, dbUp, dbTable, clock>>
resolverVars == <<run_query, engineUrl, enginesCreated, resolutions, strategy1, stopped>>
loaderVars == <<cache, df_pts, pool, queryCount, lastQuery, lastLoad, crashed>>

InitProgram ==
    /\ clock = 0
    /\ pc = "resolve"
    /\ runs = 1
    /\ run_query = "none"
    /\ engineUrl = ""
    /\ enginesCreated = 0
    /\ resolutions = 0
    /\ strategy1 = "none"
    /\ stopped = FALSE
    /\ cache = NoEntry
    /\ df_pts = EmptyFrame
    /\ df_export = EmptyFrame
    /\ pool = [calls |-> 0, acquired |-> 0, checkedOut |-> 0]
    /\ queryCount = 0
    /\ lastQuery = [at |-> -1, failed |-> FALSE, result |-> EmptyFrame]
    /\ lastLoad = [hit |-> FALSE, raised |-> FALSE, errors |-> 0, fault |-> "none"]
    /\ crashed = FALSE

Init ==
    /\ managed \in Managed
    /\ secret \in Secrets
    /\ env \in Envs
    /\ dbUp \in BOOLEAN
    /\ dbTable \in SmallTables
    /\ InitProgram

\* The loader over every table of the model, on a working managed connection.
InitClean ==
    /\ managed = "ok"
    /\ secret = NoValue
    /\ env = NoValue
    /\ dbUp = TRUE
    /\ dbTable \in AllTables
    /\ InitProgram

(***************************************************************************)
(* The script run.                                                         *)
(***************************************************************************)
\* run_query = _build_query_runner() (line 55).
BuildQueryRunner ==
    /\ pc = "resolve"
    /\ LET r == _build_query_runner(managed, dbUp, secret, env)
       IN  /\ resolutions' = resolutions + 1
           /\ strategy1' = r.s1
           /\ run_query' = IF r.kind = "stop" THEN "none" ELSE r.kind
           /\ stopped' = (r.kind = "stop")
           /\ enginesCreated' =
                  IF r.kind = "engine" THEN enginesCreated + 1 ELSE enginesCreated
           /\ engineUrl' = r.url
           /\ pc' = IF r.kind = "stop" THEN "end" ELSE "load"
    /\ UNCHANGED <<envVars, runs, loaderVars, df_export>>

\* What run_query(query) gives, with the pool it leaves.
RunQuery(sqlFails) ==
    IF run_query = "engine"
    THEN _run_query_engine(pool, dbUp, dbTable, sqlFails)
    ELSE LET r == _run_query_streamlit(managed, dbUp, dbTable, sqlFails)
         IN  [ok |-> r.ok, df |-> r.df, pool |-> pool]

\* df_pts = load_data_from_db() (line 133), under st.cache_data(ttl=300).
LoadData ==
    /\ pc = "load"
    /\ IF cache_fresh(cache, clock)
       THEN /\ df_pts' = cache.val
            /\ lastLoad' = [hit |-> TRUE, raised |-> FALSE, errors |-> 0, fault |-> "none"]
            /\ pc' = "view"
            /\ UNCHANGED <<cache, pool, queryCount, lastQuery, crashed>>
       ELSE \E fault \in FaultPoints :
              LET q == RunQuery(fault = "query")
                  o == load_try(q, fault)
                  out == except_Exception(o)
              IN  /\ queryCount' = queryCount + 1
                  /\ pool' = q.pool
                  /\ lastQuery' = [at |-> clock, failed |-> o.raised, result |-> out.df]
                  /\ lastLoad' = [hit |-> FALSE, raised |-> o.raised,
                                  errors |-> out.errors, fault |-> o.where]
                  /\ crashed' = out.propagated
                  /\ cache' = IF out.propagated THEN cache
                              ELSE cache_store(cache, clock, out)
                  /\ df_pts' = IF out.propagated THEN df_pts ELSE out.df
                  /\ pc' = IF out.propagated THEN "end" ELSE "view"
    /\ UNCHANGED <<envVars, runs, resolverVars, df_export>>

\* Lines 135-250: map and table view read df_pts; the export copy is built.
View ==
    /\ pc = "view"
    /\ df_export' = IF df_empty(df_pts) THEN df_export ELSE export_frame(df_pts)
    /\ pc' = "end"
    /\ UNCHANGED <<envVars, runs, resolverVars, loaderVars>>

\* A rerun (page load or interaction) executes the script again.
NewRun ==
    /\ pc = "end"
    /\ runs < MaxRuns
    /\ runs' = runs + 1
    /\ pc' = "resolve"
    /\ stopped' = FALSE
    /\ crashed' = FALSE
    /\ UNCHANGED <<envVars, run_query, engineUrl, enginesCreated, resolutions,
                   strategy1, cache, df_pts, df_export, pool, queryCount,
                   lastQuery, lastLoad>>

(***************************************************************************)
(* The environment.                                                        *)
(***************************************************************************)
Tick ==
    /\ \E d \in TickSteps :
          /\ clock + d <= MaxClock
          /\ clock' = clock + d
    /\ UNCHANGED <<managed, secret, env, dbUp, dbTable, pc, runs, resolverVars,
                   loaderVars, df_export>>

DbToggle ==
    /\ dbUp' = ~dbUp
    /\ UNCHANGED <<managed, secret, env, dbTable, clock, pc, runs, resolverVars,
                   loaderVars, df_export>>

DbWrite ==
    /\ \E t \in SmallTables :
          /\ t # dbTable
          /\ dbTable' = t
    /\ UNCHANGED <<managed, secret, env, dbUp, clock, pc, runs, resolverVars,
                   loaderVars, df_export>>

Next ==
    \/ BuildQueryRunner
    \/ LoadData
    \/ View
    \/ NewRun
    \/ Tick
    \/ DbToggle
    \/ DbWrite

Spec == Init /\ [][Next]_vars

\* One script run.
NextClean ==
    \/ BuildQueryRunner
    \/ LoadData
    \/ View

SpecClean == InitClean /\ [][NextClean]_vars

(***************************************************************************)
(* Properties.                                                             *)
(***************************************************************************)
\* The step taken is the load of line 133.
LoadStep == pc = "load" /\ pc' # "load"

\* The resolver of this run has run.
AfterResolve == pc \in {"load", "view", "end"}

\* A configuration source holds a connection string.
Yields(src) == src.has /\ src.val # ""

C2_ProbeFallThrough ==
    (AfterResolve /\ strategy1 = "probe_threw") =>
        /\ run_query # "managed"
        /\ (Yields(secret) \/ Yields(env)) => (run_query = "engine" /\ ~stopped)

\* C3: the resolver halts exactly when the managed strategy failed and
\* neither the secret store nor the environment yields a connection string;
\* otherwise it returns a runner, built from the secret store's value when
\* there is one and from the environment's otherwise.
C3_ResolveOutcome ==
    AfterResolve =>
        /\ stopped <=> (strategy1 # "ok" /\ ~Yields(secret) /\ ~Yields(env))
        /\ strategy1 = "ok" => run_query = "managed"
        /\ (strategy1 # "ok" /\ Yields(secret)) =>
               (run_query = "engine" /\ engineUrl = secret.val)
        /\ (strategy1 # "ok" /\ ~Yields(secret) /\ Yields(env)) =>
               (run_query = "engine" /\ engineUrl = env.val)

\* C4: no exception leaves load_data_from_db; a load in which the query or a
\* cleaning step raised reports one error message and returns the empty table.
C4_ErrorsAbsorbed ==
    /\ ~crashed
    /\ (pc = "view" /\ lastLoad.raised) =>
           (df_pts = EmptyFrame /\ lastLoad.errors = 1)

\* C4 witness: a cleaning step raised on a fetched, non-empty table.
C4_Witness ==
    /\ pc = "view"
    /\ lastLoad.raised
    /\ lastLoad.fault \in {"rename", "fill", "parse", "drop"}
    /\ df_pts = EmptyFrame

InRange(v, lo, hi) == v.t = "float" /\ v.k = "num" /\ lo <= v.m /\ v.m <= hi

\* C5 as claimed: every returned row has a finite lat in -90..90 and a finite
\* lon in -180..180 (thousandths of a degree).
C5_CoordsInRange ==
    \A i \in 1..Len(df_pts) :
        /\ InRange(df_pts[i]["lat"], -90000, 90000)
        /\ InRange(df_pts[i]["lon"], -180000, 180000)

\* C5 amended: every returned row has a lat and a lon that are floats and not
\* the missing-value marker.
C5_CoordsPresent ==
    \A i \in 1..Len(df_pts) :
        /\ {"lat", "lon"} \subseteq DOMAIN df_pts[i]
        /\ df_pts[i]["lat"].t = "float" /\ df_pts[i]["lat"].k # "nan"
        /\ df_pts[i]["lon"].t = "float" /\ df_pts[i]["lon"].k # "nan"

\* C5 witness: the load kept a row and dropped another.
C5_Witness ==
    /\ pc = "view"
    /\ ~lastLoad.raised
    /\ Len(df_pts) >= 1
    /\ Len(df_pts) < Len(dbTable)

\* The designated text attributes, and the source column of each.
DesignatedText ==
    {"kode_pts", "nama", "status_pt", "singkatan", "alamat", "kota", "propinsi",
     "kode_pos", "no_telp", "no_fax", "email", "website"}

SourceColumn(c) ==
    CASE c = "kota" -> "kota_kab"
      [] c = "propinsi" -> "provinsi"
      [] OTHER -> c

\* C6: in every returned row each designated text attribute is a text value,
\* and is exactly "-" where the source value was absent.
C6_TextFilled ==
    \A i \in 1..Len(df_pts) : \A c \in DesignatedText :
        /\ c \in DOMAIN df_pts[i]
        /\ df_pts[i][c].t = "str"
        /\ RawById(df_pts[i]["id"])[SourceColumn(c)] = NULL =>
               df_pts[i][c] = Sentinel

\* C6 witness: a returned row whose source had no locality and no name.
C6_Witness ==
    /\ pc = "view"
    /\ \E i \in 1..Len(df_pts) :
          /\ RawById(df_pts[i]["id"])["kota_kab"] = NULL
          /\ RawById(df_pts[i]["id"])["nama"] = NULL
          /\ df_pts[i]["kota"] = Sentinel
          /\ df_pts[i]["nama"] = Sentinel

Naive(v) == v.t = "ts" => v.tz = "naive"

C8_HandleCreatedOnce == enginesCreated <= 1

C10_FailureCached ==
    [][LoadStep /\ lastQuery.at >= 0 /\ lastQuery.failed =>
          IF clock - lastQuery.at < ttl
          THEN df_pts' = EmptyFrame /\ queryCount' = queryCount
          ELSE queryCount' = queryCount + 1]_vars

\* C10 witness: the failed load's empty table was served from the cache while
\* the database was up and the table had rows.
C10_Witness ==
    /\ pc = "view"
    /\ lastLoad.hit
    /\ lastQuery.failed
    /\ df_pts = EmptyFrame
    /\ dbUp
    /\ ~df_empty(dbTable)
    /\ run_query \in {"managed", "engine"}

====
